---- MODULE Spec2Model ----
(***************************************************************************)
(* A model of main.py: the LauncherUI main thread (on_launch,              *)
(* open_mods_folder, the Qt event queue that delivers the worker's queued  *)
(* signals) and the MinecraftWorker threads (run), over a versions         *)
(* directory that the installer library and os.makedirs write to.          *)
(*                                                                         *)
(* Strings that the code only compares by prefix and suffix (the folder    *)
(* names under <base>/versions) are sequences of tokens; user names and    *)
(* child output are sequences of characters/bytes.                         *)
(***************************************************************************)
EXTENDS Integers, Sequences, FiniteSets, TLC

\* ------------------------------------------------------------------ bounds
MaxLaunches == 2      \* launches accepted in one run of the model
MaxLines == 2         \* lines a child process writes
MaxPreinstalled == 1  \* version folders present before the program starts

\* ------------------------------------------------------- program constants
HeapInitCap == 512    \* min(512, self.ram_mb)
RamMin == 512         \* ram_spin.setRange(512, 32768)
RamDefault == 2048    \* ram_spin.setValue(2048)
WidthDefault == 854   \* width_spin.setValue(854)
HeightDefault == 480  \* height_spin.setValue(480)

\* ------------------------------------------------------------------ inputs
Loaders == {"Vanilla", "Fabric", "Forge"}
Versions == {"1.19", "1.20"}
RamValues == {RamMin, RamDefault}
\* contents of the username field when the launch button is clicked
UsernameTexts == {<<>>, <<" ">>, <<"a">>, <<" ", "a", " ">>}
Whitespace == {" ", "\n"}
\* what a child process can write: lines of bytes, each ended by "\n";
\* "xFF" is a byte that is not valid UTF-8
RawLines == {<<"a", " ", "\n">>, <<"xFF", "b", "\n">>, <<"\n">>}
ExitCodes == {0, 1}
FabricBuilds == {"0.14", "0.15"}
LatestFabric == "0.15"
ForgeBuild == "47.2"

NoneVersion == <<>>   \* launcher_version = None (falsy, like "")

\* ------------------------------------------------------------- sequences
SeqsUpTo(S, n) == UNION {[1..k -> S] : k \in 0..n}

Contains(s, x) == \E i \in 1..Len(s) : s[i] = x

NoDup(s) == \A i, j \in 1..Len(s) : i # j => s[i] # s[j]

InsertAt(s, i, x) == SubSeq(s, 1, i - 1) \o <<x>> \o SubSeq(s, i, Len(s))

StartsWith(s, p) == Len(s) >= Len(p) /\ SubSeq(s, 1, Len(p)) = p

EndsWith(s, p) == Len(s) >= Len(p) /\ SubSeq(s, Len(s) - Len(p) + 1, Len(s)) = p

Min(a, b) == IF a <= b THEN a ELSE b

RECURSIVE LStrip(_)
LStrip(s) == IF s # <<>> /\ Head(s) \in Whitespace THEN LStrip(Tail(s)) ELSE s

RECURSIVE RStrip(_)
RStrip(s) ==
  IF s # <<>> /\ s[Len(s)] \in Whitespace THEN RStrip(SubSeq(s, 1, Len(s) - 1)) ELSE s

Strip(s) == RStrip(LStrip(s))

IsValidByte(b) == b # "xFF"

\* raw.decode("utf-8", errors="ignore").rstrip()
DecodeLine(raw) == RStrip(SelectSeq(raw, IsValidByte))

\* ------------------------------------------------------------ folder names
VanillaFolder(v) == <<v>>
FabricFolder(b, v) == <<"fabric-loader", b, v>>
ForgeFolder(v) == <<v, "forge", ForgeBuild>>
Folders ==
  {FabricFolder(b, v) : b \in FabricBuilds, v \in Versions}
    \cup {ForgeFolder(v) : v \in Versions} \cup {VanillaFolder(v) : v \in Versions}

IsForgeFolder(f) == Len(f) = 3 /\ f[2] = "forge"

\* paths
BaseMods == <<"mods">>
VersionMods(f) == <<"versions">> \o f \o <<"mods">>


\* ------------------------------------------------------------------- state
VARIABLES
  versions_dir,  \* os.listdir(<base>/versions), in directory order
  workers,       \* the MinecraftWorker objects created so far, by number
  worker,        \* LauncherUI.worker: the number of the last worker, 0 before any
  launch_btn,    \* launch_btn.isEnabled()
  dialog,        \* the modal "Missing username" box is open
  log_box,       \* log_box: the lines appended so far
  queue,         \* the main thread's event queue: queued slot calls
  opened         \* the folder last handed to the file browser

vars == <<versions_dir, workers, worker, launch_btn, dialog, log_box, queue, opened>>

WorkerIds == 1..MaxLaunches

NoPath == <<>>

Msg(kind, text, strs, nums) == [kind |-> kind, text |-> text, strs |-> strs, nums |-> nums]

NoCmd == [version |-> NoneVersion, jvmArguments |-> <<>>, mods_directory |-> NoPath,
          username |-> <<>>, uuid |-> <<>>, token |-> "", gameArguments |-> <<>>]

Unborn ==
  [pc |-> "unborn", username |-> <<>>, version |-> "", ram_mb |-> 0, loader |-> "",
   width |-> 0, height |-> 0, launcher_version |-> NoneVersion, mods_path |-> NoPath,
   resolved_dir |-> <<>>, cmd |-> NoCmd, written |-> <<>>, exited |-> FALSE,
   returncode |-> 0, install |-> "", emitted |-> <<>>, nfinished |-> 0, spawned |-> 0]

\* MinecraftWorker.__init__
NewWorker(username, version, ram_mb, loader, width, height) ==
  [Unborn EXCEPT !.pc = "start", !.username = username, !.version = version,
                 !.ram_mb = ram_mb, !.loader = loader, !.width = width, !.height = height]

NumWorkers == Cardinality({w \in WorkerIds : workers[w].pc # "unborn"})

\* a worker whose thread has been started and whose run() has not returned
Active(w) == workers[w].pc \notin {"unborn", "done"}

InitDirs == {d \in SeqsUpTo(Folders, MaxPreinstalled) : NoDup(d)}

Fresh ==
  /\ workers = [w \in WorkerIds |-> Unborn]
  /\ worker = 0
  /\ launch_btn = TRUE
  /\ dialog = FALSE
  /\ log_box = <<>>
  /\ queue = <<>>
  /\ opened = NoPath

\* ------------------------------------------------------------ main thread
generate_offline_uuid(username) == <<"uuid3", "OfflinePlayer:">> \o username

\* on_launch without the check of the name
UsernameUnchecked(username) == TRUE

\* if not username: ... return
UsernameOk(username) == username # <<>>

\* a queued call of a slot connected to one of worker w's signals
LogCall(w, m) == [slot |-> "log", from |-> w, msg |-> m]

\* finished_signal with only the "Launch finished." slot connected
FinishedCallsNoEnable(w) ==
  << [slot |-> "finished_log", from |-> w, msg |-> Msg("", <<>>, <<>>, <<>>)] >>

FinishedCalls(w) ==
  << [slot |-> "finished_log", from |-> w, msg |-> Msg("", <<>>, <<>>, <<>>)],
     [slot |-> "finished_enable", from |-> w, msg |-> Msg("", <<>>, <<>>, <<>>)] >>

\* on_launch, with the field contents read at the click; budget caps the
\* number of launches in a run of the model
on_launch(text, version, loader, ram, budget) ==
  /\ launch_btn
  /\ ~dialog
  /\ LET username == Strip(text) IN
     IF ~UsernameOk(username)
     THEN /\ dialog' = TRUE
          /\ UNCHANGED <<versions_dir, workers, worker, launch_btn, log_box, queue, opened>>
     ELSE /\ NumWorkers < budget
          /\ LET id == NumWorkers + 1 IN
             /\ log_box' = Append(log_box, Msg("Launching:", username, <<version, loader>>, <<ram>>))
             /\ workers' = [workers EXCEPT
                  ![id] = NewWorker(username, version, ram, loader, WidthDefault, HeightDefault)]
             /\ worker' = id
             /\ launch_btn' = FALSE
          /\ UNCHANGED <<versions_dir, dialog, queue, opened>>

\* the user closes the modal box; QMessageBox.warning returns and on_launch returns
DismissWarning ==
  /\ dialog
  /\ dialog' = FALSE
  /\ UNCHANGED <<versions_dir, workers, worker, launch_btn, log_box, queue, opened>>

\* the event loop runs the next queued slot call
Deliver ==
  /\ queue # <<>>
  /\ LET c == Head(queue) IN
     /\ queue' = Tail(queue)
     /\ log_box' = IF c.slot = "log" THEN Append(log_box, c.msg)
                   ELSE IF c.slot = "finished_log"
                        THEN Append(log_box, Msg("Launch finished.", <<>>, <<>>, <<>>))
                        ELSE log_box
     /\ launch_btn' = IF c.slot = "finished_enable" THEN TRUE ELSE launch_btn
  /\ UNCHANGED <<versions_dir, workers, worker, dialog, opened>>

FabricVersions(dir, version) ==
  SelectSeq(dir, LAMBDA f : StartsWith(f, <<"fabric-loader">>) /\ EndsWith(f, <<version>>))

ForgeNamed(dir, version) ==
  SelectSeq(dir, LAMBDA f : StartsWith(f, <<"forge">>) /\ EndsWith(f, <<version>>))

Last(s) == s[Len(s)]

OpenModsPath(loader, version, dir) ==
  IF loader = "Fabric" /\ FabricVersions(dir, version) # <<>>
  THEN VersionMods(Last(FabricVersions(dir, version)))
  ELSE IF loader = "Forge" /\ ForgeNamed(dir, version) # <<>>
       THEN VersionMods(Last(ForgeNamed(dir, version)))
       ELSE BaseMods

\* makedirs creates only the mods folder, under a folder that is listed already
\* or under <base>: the listing of <base>/versions is unchanged
open_mods_folder(loader, version) ==
  /\ ~dialog
  /\ opened' = OpenModsPath(loader, version, versions_dir)
  /\ UNCHANGED <<versions_dir, workers, worker, launch_btn, dialog, log_box, queue>>

\* ---------------------------------------------------------- worker thread
\* a return that leaves run() without running the finally clause
AfterReturnSkipsFinally == "done"

\* a failure handler without its return: control falls through to the None check
AfterReturnFallsThrough == "check"

\* a failure handler without its return that goes on to launch
AfterReturnLaunches == "spawn"

\* where a return inside run()'s try block continues: the finally clause
AfterReturn == "finally"

\* except Exception: self.log.emit("Launcher crashed:\n" + traceback.format_exc())
CrashMsg == Msg("Launcher crashed:", <<>>, <<>>, <<>>)

\* Worker w becomes `me` and self.log.emit(m) is called for each m of msgs: the
\* slot lives in the main thread, so each call is queued there, in order.
\* emitted keeps what the worker has emitted on its log signal.
Say(w, me, msgs) ==
  /\ queue' = queue \o [i \in 1..Len(msgs) |-> LogCall(w, msgs[i])]
  /\ workers' = [workers EXCEPT ![w] = [me EXCEPT !.emitted = @ \o msgs]]

\* what the installer library leaves in the versions directory: the folder, at
\* some place of the listing, unless it is there already
Installed(dir, f) ==
  IF Contains(dir, f) THEN {dir} ELSE {InsertAt(dir, i, f) : i \in 1..(Len(dir) + 1)}

\* os.makedirs(<base>/versions/<f>/mods, exist_ok=True)
MakeDirs(dir, f) == IF Contains(dir, f) THEN dir ELSE Append(dir, f)

\* mll.forge.get_installed_forge_versions(mc_dir)
InstalledForgeVersions(dir) == SelectSeq(dir, IsForgeFolder)

\* what a call into the installer library does: it installs, it returns
\* without leaving a folder the code recognises, or it raises
InstallOutcomes == {"ok", "noop", "raise"}

\* run(), lines 37-44, 66, 81: the first log line of the loader branch
run_begin(w) ==
  /\ workers[w].pc = "start"
  /\ LET me == workers[w]
         m == IF me.loader = "Fabric" THEN Msg("Installing Fabric for", <<>>, <<me.version>>, <<>>)
              ELSE IF me.loader = "Forge" THEN Msg("Installing Forge for", <<>>, <<me.version>>, <<>>)
              ELSE Msg("Ensuring vanilla", <<>>, <<me.version>>, <<>>)
     IN Say(w, [me EXCEPT !.pc = "install", !.mods_path = BaseMods], <<m>>)
  /\ UNCHANGED <<versions_dir, worker, launch_btn, dialog, log_box, opened>>

\* the Fabric branch: install_fabric, the listing, the choice of the folder
run_fabric(w, outcome) ==
  /\ workers[w].pc = "install"
  /\ workers[w].loader = "Fabric"
  /\ LET me == [workers[w] EXCEPT !.install = outcome] IN
     IF outcome = "raise"
     THEN /\ Say(w, [me EXCEPT !.pc = AfterReturn],
                 <<Msg("Fabric installation failed:", <<>>, <<>>, <<>>)>>)
          /\ UNCHANGED versions_dir
     ELSE /\ versions_dir' \in
               (IF outcome = "ok" THEN Installed(versions_dir, FabricFolder(LatestFabric, me.version))
                ELSE {versions_dir})
          /\ LET fabric_versions == FabricVersions(versions_dir', me.version)
                 lv == IF fabric_versions # <<>> THEN Last(fabric_versions) ELSE NoneVersion
                 mp == IF fabric_versions # <<>> THEN VersionMods(lv) ELSE me.mods_path
             IN Say(w, [me EXCEPT !.pc = "check", !.launcher_version = lv, !.mods_path = mp,
                                  !.resolved_dir = versions_dir'],
                    <<Msg("Fabric installed:", <<>>, IF lv = NoneVersion THEN <<"None">> ELSE lv, <<>>)>>)
  /\ UNCHANGED <<worker, launch_btn, dialog, log_box, opened>>

\* the Forge branch: the installed forge versions, installing one only when
\* there is none, the last of them or else the plain version
run_forge(w, outcome) ==
  /\ workers[w].pc = "install"
  /\ workers[w].loader = "Forge"
  /\ LET me == [workers[w] EXCEPT !.install = outcome] IN
     IF outcome = "raise"
     THEN /\ Say(w, [me EXCEPT !.pc = AfterReturn],
                 <<Msg("Forge installation failed:", <<>>, <<>>, <<>>)>>)
          /\ UNCHANGED versions_dir
     ELSE \E d \in (IF InstalledForgeVersions(versions_dir) = <<>> /\ outcome = "ok"
                    THEN Installed(versions_dir, ForgeFolder(me.version))
                    ELSE {versions_dir}) :
            LET forge_versions == InstalledForgeVersions(d)
                lv == IF forge_versions # <<>> THEN Last(forge_versions) ELSE VanillaFolder(me.version)
            IN /\ versions_dir' = MakeDirs(d, lv)
               /\ Say(w, [me EXCEPT !.pc = "check", !.launcher_version = lv,
                                    !.mods_path = VersionMods(lv), !.resolved_dir = versions_dir'],
                      <<Msg("Forge installed:", <<>>, lv, <<>>)>>)
  /\ UNCHANGED <<worker, launch_btn, dialog, log_box, opened>>

\* mll.install.install_minecraft_version(version, mc_dir), when it returns
InstalledVanilla(dir, version) ==
  IF Contains(dir, VanillaFolder(version)) THEN dir ELSE Append(dir, VanillaFolder(version))

\* the Vanilla branch: a failed install is swallowed; makedirs is outside the
\* inner try
run_vanilla(w, outcome, mkdirs_ok) ==
  /\ workers[w].pc = "install"
  /\ workers[w].loader = "Vanilla"
  /\ versions_dir' = IF outcome = "ok" THEN InstalledVanilla(versions_dir, workers[w].version)
                     ELSE versions_dir
  /\ LET me == [workers[w] EXCEPT !.install = outcome,
                                  !.launcher_version = VanillaFolder(workers[w].version),
                                  !.mods_path = BaseMods,
                                  !.resolved_dir = versions_dir']
     IN IF mkdirs_ok
        THEN Say(w, [me EXCEPT !.pc = "check"], <<>>)
        ELSE Say(w, [me EXCEPT !.pc = "finally"], <<CrashMsg>>)
  /\ UNCHANGED <<worker, launch_btn, dialog, log_box, opened>>

\* f"-Xmx{ram_mb}M", f"-Xms{min(512, ram_mb)}M"
JvmFlag(name, n) == [flag |-> name, n |-> n, unit |-> "M"]

\* the initial heap set to the requested memory
JvmArgumentsNoMin(ram_mb) == <<JvmFlag("-Xmx", ram_mb), JvmFlag("-Xms", ram_mb)>>

JvmArguments(ram_mb) == <<JvmFlag("-Xmx", ram_mb), JvmFlag("-Xms", Min(HeapInitCap, ram_mb))>>

\* the version and the options dictionary handed to get_minecraft_command
Command(me) ==
  [version |-> me.launcher_version,
   username |-> me.username,
   uuid |-> generate_offline_uuid(me.username),
   token |-> "null",
   jvmArguments |-> JvmArguments(me.ram_mb),
   gameArguments |-> <<me.width, me.height>>,
   mods_directory |-> me.mods_path]

\* mll.command.get_minecraft_command can build a command only for a version
\* whose folder is under <base>/versions; it raises otherwise
CanBuild(dir, version) == Contains(dir, version)

\* lines 89-115: the None check, the offline user, the command builder
run_build(w, builder_ok) ==
  /\ workers[w].pc = "check"
  /\ LET me == workers[w] IN
     IF me.launcher_version = NoneVersion
     THEN Say(w, [me EXCEPT !.pc = AfterReturn],
              <<Msg("Error: launcher_version is None!", <<>>, <<>>, <<>>)>>)
     ELSE /\ builder_ok => CanBuild(versions_dir, me.launcher_version)
          /\ Say(w, [me EXCEPT !.pc = IF builder_ok THEN "spawn" ELSE "finally",
                               !.cmd = Command(me)],
                 << Msg("Using offline user:", me.username, generate_offline_uuid(me.username), <<>>),
                    IF builder_ok THEN Msg("Launching Minecraft...", <<>>, <<>>, <<>>)
                    ELSE CrashMsg >>)
  /\ UNCHANGED <<versions_dir, worker, launch_btn, dialog, log_box, opened>>

\* line 117: subprocess.Popen
run_spawn(w, spawn_ok) ==
  /\ workers[w].pc = "spawn"
  /\ LET me == workers[w] IN
     IF spawn_ok
     THEN Say(w, [me EXCEPT !.pc = "read", !.spawned = @ + 1], <<>>)
     ELSE Say(w, [me EXCEPT !.pc = "finally"], <<CrashMsg>>)
  /\ UNCHANGED <<versions_dir, worker, launch_btn, dialog, log_box, opened>>

\* a read loop that skips the lines that are empty once stripped
run_readline_skips_blank(w, raw, maxlines) ==
  /\ workers[w].pc = "read"
  /\ Len(workers[w].written) < maxlines
  /\ Say(w, [workers[w] EXCEPT !.written = Append(@, raw)],
         IF DecodeLine(raw) = <<>> THEN <<>> ELSE <<Msg("line", DecodeLine(raw), <<>>, <<>>)>>)
  /\ UNCHANGED <<versions_dir, worker, launch_btn, dialog, log_box, opened>>

\* lines 118-125: one readline that returns the line the child wrote next
run_readline(w, raw, maxlines) ==
  /\ workers[w].pc = "read"
  /\ Len(workers[w].written) < maxlines
  /\ Say(w, [workers[w] EXCEPT !.written = Append(@, raw)],
         <<Msg("line", DecodeLine(raw), <<>>, <<>>)>>)
  /\ UNCHANGED <<versions_dir, worker, launch_btn, dialog, log_box, opened>>

\* lines 118, 126-128: readline returns b'' (the child closed its output), then
\* close, wait and the exit line
run_eof(w, code) ==
  /\ workers[w].pc = "read"
  /\ Say(w, [workers[w] EXCEPT !.pc = "finally", !.returncode = code, !.exited = TRUE],
         <<Msg("Minecraft exited with code", <<>>, <<>>, <<code>>)>>)
  /\ UNCHANGED <<versions_dir, worker, launch_btn, dialog, log_box, opened>>

\* a fault while reading (readline, close or wait raises): the outer except
run_read_fault(w) ==
  /\ workers[w].pc = "read"
  /\ Say(w, [workers[w] EXCEPT !.pc = "finally"], <<CrashMsg>>)
  /\ UNCHANGED <<versions_dir, worker, launch_btn, dialog, log_box, opened>>

\* finally: self.finished_signal.emit(): one queued call per connected slot
run_finally(w) ==
  /\ workers[w].pc = "finally"
  /\ queue' = queue \o FinishedCalls(w)
  /\ workers' = [workers EXCEPT ![w].pc = "returning", ![w].nfinished = @ + 1]
  /\ UNCHANGED <<versions_dir, worker, launch_btn, dialog, log_box, opened>>

\* run() returns and the thread ends
run_return(w) ==
  /\ workers[w].pc = "returning"
  /\ workers' = [workers EXCEPT ![w].pc = "done"]
  /\ UNCHANGED <<versions_dir, worker, launch_btn, dialog, log_box, queue, opened>>

\* ---------------------------------------------------------- specification
WorkerStep(w, lines, maxlines, codes) ==
  \/ run_begin(w)
  \/ \E o \in InstallOutcomes : run_fabric(w, o)
  \/ \E o \in InstallOutcomes : run_forge(w, o)
  \/ \E o \in InstallOutcomes, ok \in BOOLEAN : run_vanilla(w, o, ok)
  \/ \E ok \in BOOLEAN : run_build(w, ok)
  \/ \E ok \in BOOLEAN : run_spawn(w, ok)
  \/ \E raw \in lines : run_readline(w, raw, maxlines)
  \/ \E code \in codes : run_eof(w, code)
  \/ run_read_fault(w)
  \/ run_finally(w)
  \/ run_return(w)

\* One launch of one version into an empty versions directory: every loader,
\* every memory setting, every child output of up to MaxLines lines.
OneVersion == "1.20"
OneLine == {<<"a", " ", "\n">>}

Init == Fresh /\ versions_dir = <<>>

Next ==
  \/ \E t \in UsernameTexts, l \in Loaders, r \in RamValues : on_launch(t, OneVersion, l, r, 1)
  \/ DismissWarning
  \/ Deliver
  \/ \E l \in Loaders : open_mods_folder(l, OneVersion)
  \/ \E w \in WorkerIds : WorkerStep(w, RawLines, MaxLines, ExitCodes)

Spec == Init /\ [][Next]_vars

\* The same with fair scheduling: the event loop keeps running queued calls,
\* and every started thread keeps running (calls into the library return or
\* raise, the child closes its output and ends).
FairSpec ==
  /\ Spec
  /\ WF_vars(Deliver)
  /\ \A w \in WorkerIds : WF_vars(WorkerStep(w, RawLines, MaxLines, ExitCodes))

\* One launch of any version with any loader into a versions directory that
\* holds up to MaxPreinstalled folders; the child writes at most one line.
InstallInit == Fresh /\ versions_dir \in InitDirs

InstallNext ==
  \/ \E t \in UsernameTexts, v \in Versions, l \in Loaders : on_launch(t, v, l, RamDefault, 1)
  \/ DismissWarning
  \/ Deliver
  \/ \E l \in Loaders, v \in Versions : open_mods_folder(l, v)
  \/ \E w \in WorkerIds : WorkerStep(w, OneLine, 1, {0})

InstallSpec == InstallInit /\ [][InstallNext]_vars

\* Launch after launch, up to MaxLaunches, of one version into an empty
\* versions directory; the child writes at most one line.
RelaunchNext ==
  \/ \E t \in UsernameTexts, l \in Loaders :
       on_launch(t, OneVersion, l, RamDefault, MaxLaunches)
  \/ DismissWarning
  \/ Deliver
  \/ \E l \in Loaders : open_mods_folder(l, OneVersion)
  \/ \E w \in WorkerIds : WorkerStep(w, OneLine, 1, {0})

RelaunchSpec == Init /\ [][RelaunchNext]_vars

\* Launch after launch with fair scheduling.
LiveSpec ==
  /\ RelaunchSpec
  /\ WF_vars(Deliver)
  /\ \A w \in WorkerIds : WF_vars(WorkerStep(w, OneLine, 1, {0}))

\* ------------------------------------------------------------------ claims
Born(w) == workers[w].pc # "unborn"

\* the worker has emitted finished_signal: its finally clause has run
Finished(w) == workers[w].pc \in {"returning", "done"}

Count(s, P(_)) == Len(SelectSeq(s, P))

IsFinishedLine(m) == m.kind = "Launch finished."
IsFinishedCall(c) == c.slot = "finished_log"
IsEnableCall(c) == c.slot = "finished_enable"

SumFinished == LET RECURSIVE Sum(_)
                   Sum(n) == IF n = 0 THEN 0 ELSE workers[n].nfinished + Sum(n - 1)
               IN Sum(MaxLaunches)

\* C1: every worker emits finished_signal exactly once, whichever stage
\* fails: not before its finally clause, once when run() has reached its end,
\* never twice; and each emission reaches the UI as one "Launch finished." line
\* and one re-enabling of the button, no more.
C1_FinishedExactlyOnce ==
  /\ \A w \in WorkerIds :
       /\ workers[w].nfinished = (IF Finished(w) THEN 1 ELSE 0)
       /\ workers[w].pc \in {"unborn", "start", "install", "check", "spawn", "read",
                             "finally", "returning", "done"}
  /\ Count(log_box, IsFinishedLine) + Count(queue, IsFinishedCall) = SumFinished
  /\ Count(queue, IsEnableCall) <= SumFinished

\* a worker whose launch failed before the child was spawned has returned
\* and its one terminal outcome has reached the log view
C1_Witness ==
  \E w \in WorkerIds :
    /\ workers[w].pc = "done"
    /\ workers[w].spawned = 0
    /\ workers[w].nfinished = 1
    /\ Count(log_box, IsFinishedLine) = 1

IsExitLine(m) == m.kind = "Minecraft exited with code"
IsFailureLine(m) ==
  m.kind \in {"Fabric installation failed:", "Forge installation failed:",
              "Error: launcher_version is None!", "Launcher crashed:"}

\* C5: a completed launch has logged exactly one of the exit-code line and a
\* failure line (installation failed, launcher version unresolved, launcher
\* crashed); at no point has a worker logged both, or two of either.
C5_ExitCodeXorFailure ==
  \A w \in WorkerIds :
    LET exits == Count(workers[w].emitted, IsExitLine)
        failures == Count(workers[w].emitted, IsFailureLine)
    IN /\ exits + failures <= 1
       /\ workers[w].pc \in {"finally", "returning", "done"} => exits + failures = 1
       /\ exits = 1 <=> workers[w].exited

\* both kinds of outcome occur: here a child that ran and exited non-zero
C5_Witness ==
  \E w \in WorkerIds :
    /\ workers[w].pc = "done"
    /\ workers[w].exited
    /\ workers[w].returncode = 1
    /\ Count(workers[w].emitted, IsExitLine) = 1
    /\ Count(workers[w].emitted, IsFailureLine) = 0

\* memory settings on both sides of 512, below the range of the spin box too
HeapExamples == {256, 512, 2048}

HeapFlagsFor(R) ==
  << [flag |-> "-Xmx", n |-> R, unit |-> "M"],
     [flag |-> "-Xms", n |-> IF R < 512 THEN R ELSE 512, unit |-> "M"] >>

\* C8: the heap flags handed to the command builder are "-Xmx<R>M" with R
\* the requested memory and "-Xms<I>M" with I the smaller of 512 and R:
\* 2048M and 512M for R = 2048, an initial heap of 256M for R = 256.
C8_HeapFlags ==
  /\ \A w \in WorkerIds :
       workers[w].cmd # NoCmd =>
         workers[w].cmd.jvmArguments = HeapFlagsFor(workers[w].ram_mb)
  /\ \A R \in HeapExamples : JvmArguments(R) = HeapFlagsFor(R)

C8_Witness ==
  \E w \in WorkerIds :
    /\ workers[w].cmd # NoCmd
    /\ workers[w].ram_mb = 2048
    /\ workers[w].cmd.jvmArguments[1].n = 2048
    /\ workers[w].cmd.jvmArguments[2].n = 512

IsPrefix(p, q) == Len(p) <= Len(q) /\ SubSeq(q, 1, Len(p)) = p

IsLaunchingMinecraft(m) == m.kind = "Launching Minecraft..."
IsOwnLine(m) == m.kind = "Launching:"
IsWorkerLine(m) == ~IsOwnLine(m)

\* what the worker emits from "Launching Minecraft..." on
RECURSIVE SinceSpawn(_)
SinceSpawn(e) ==
  IF e = <<>> THEN <<>>
  ELSE IF IsLaunchingMinecraft(Head(e)) THEN Tail(e) ELSE SinceSpawn(Tail(e))

LineEvents(written) ==
  [i \in 1..Len(written) |-> Msg("line", DecodeLine(written[i]), <<>>, <<>>)]

\* C3: when the child writes N lines and exits with code C the worker emits
\* exactly the N lines, in the order written, then the exit line for C, and
\* finished_signal only after them; the log view shows what the worker emitted,
\* in that order, followed by "Launch finished.".
C3_LinesInOrder ==
  \A w \in WorkerIds :
    LET me == workers[w] IN
    /\ me.pc = "read" => SinceSpawn(me.emitted) = LineEvents(me.written)
    /\ me.exited =>
         /\ SinceSpawn(me.emitted) =
              LineEvents(me.written) \o <<Msg("Minecraft exited with code", <<>>, <<>>, <<me.returncode>>)>>
         /\ me.pc \in {"finally", "returning", "done"}
    /\ NumWorkers = 1 /\ Born(w) =>
         LET expected == me.emitted \o (IF Finished(w) THEN <<Msg("Launch finished.", <<>>, <<>>, <<>>)>>
                                        ELSE <<>>)
             shown == SelectSeq(log_box, IsWorkerLine)
         IN /\ IsPrefix(shown, expected)
            /\ Len(shown) + Count(queue, LAMBDA c : c.slot # "finished_enable") = Len(expected)

\* two different lines, one of them blank once stripped, then exit code 1,
\* all of it delivered to the log view
C3_Witness ==
  \E w \in WorkerIds :
    /\ workers[w].pc = "done"
    /\ workers[w].exited
    /\ workers[w].returncode = 1
    /\ workers[w].written = << <<"\n">>, <<"a", " ", "\n">> >>
    /\ queue = <<>>
    /\ Count(log_box, LAMBDA m : m.kind = "line") = 2

\* the install/resolve step of worker w threw or yielded no usable target
Resolving(w) == workers[w].pc \notin {"unborn", "start", "install"}
SetupFailed(w) ==
  /\ Resolving(w)
  /\ \/ workers[w].install = "raise"
     \/ workers[w].loader = "Fabric" /\ workers[w].launcher_version = NoneVersion
     \/ workers[w].loader = "Forge" /\ ~IsForgeFolder(workers[w].launcher_version)

\* the same for the mod loaders: the Fabric or Forge step threw, or the Fabric
\* step found no fabric-loader folder for the version
LoaderSetupFailed(w) ==
  /\ Resolving(w)
  /\ \/ workers[w].loader \in {"Fabric", "Forge"} /\ workers[w].install = "raise"
     \/ workers[w].loader = "Fabric" /\ workers[w].launcher_version = NoneVersion

StopsBeforeSpawn(w) ==
  /\ workers[w].pc \notin {"spawn", "read"}
  /\ workers[w].spawned = 0
  /\ ~workers[w].exited
  /\ workers[w].pc \in {"finally", "returning", "done"} =>
       /\ Count(workers[w].emitted, IsFailureLine) = 1
       /\ Count(workers[w].emitted, IsExitLine) = 0
  /\ workers[w].pc = "done" => workers[w].nfinished = 1

IsBlank(t) == \A i \in 1..Len(t) : t[i] \in {" ", "\n"}

\* C9: a click on the launch button with an empty or whitespace-only name
\* creates and starts no worker, leaves the button enabled and appends
\* nothing to the log; every worker has a name that is not empty, and the
\* offline identity is generated from that name.
C9_UsernameValidated ==
  /\ [](\A w \in WorkerIds :
          Born(w) =>
            /\ workers[w].username # <<>>
            /\ ~IsBlank(workers[w].username)
            /\ workers[w].cmd # NoCmd =>
                 workers[w].cmd.uuid = <<"uuid3", "OfflinePlayer:">> \o workers[w].username)
  /\ [][\A t \in UsernameTexts, l \in Loaders, r \in RamValues :
          (IsBlank(t) /\ on_launch(t, OneVersion, l, r, 1)) =>
            /\ UNCHANGED <<workers, worker, log_box, queue>>
            /\ launch_btn'
            /\ NumWorkers' = NumWorkers]_vars

\* the warning box is up after a click with a blank name, before any launch
C9_Witness == dialog /\ launch_btn /\ NumWorkers = 0 /\ log_box = <<>> /\ queue = <<>>

\* the UI has run the slot that re-enables the button for worker w
Handled(w) ==
  /\ Finished(w)
  /\ ~\E i \in 1..Len(queue) : queue[i].from = w /\ queue[i].slot = "finished_enable"

\* C2: at most one worker is active (started, run() not yet returned) at any
\* time, and from the start of a worker until the UI has handled its terminal
\* outcome the launch button is disabled.
C2_AtMostOneActive ==
  /\ Cardinality({w \in WorkerIds : Active(w)}) <= 1
  /\ \A w \in WorkerIds : Born(w) /\ ~Handled(w) => ~launch_btn

\* C6: whenever the launch button is disabled it is eventually enabled again.
C6_BusyCleared == (~launch_btn) ~> launch_btn

\* the button is enabled again after a launch that crashed while reading
C6_Witness ==
  /\ launch_btn
  /\ \E w \in WorkerIds :
       /\ workers[w].spawned = 1
       /\ ~workers[w].exited
       /\ Count(workers[w].emitted, IsFailureLine) = 1
       /\ Handled(w)

\* C7: when the mod folder is opened for the loader and version of a launch
\* that handed a mod directory to the command builder, and the versions
\* directory is as that launch left it, the folder opened is that directory.
C7_OpensLaunchModsFolder ==
  [][\A l \in Loaders, v \in Versions :
       open_mods_folder(l, v) =>
         \A w \in WorkerIds :
           (/\ workers[w].cmd # NoCmd
            /\ workers[w].loader = l
            /\ workers[w].version = v
            /\ workers[w].resolved_dir = versions_dir)
           => opened' = workers[w].cmd.mods_directory]_vars

FolderKind(f) ==
  IF IsForgeFolder(f) THEN "Forge"
  ELSE IF StartsWith(f, <<"fabric-loader">>) THEN "Fabric" ELSE "Vanilla"
FolderGame(f) == IF IsForgeFolder(f) THEN f[1] ELSE f[Len(f)]

\* C10: the version handed to the command builder is an installation of the
\* requested game version with the requested loader kind, present under
\* <base>/versions for the mod loaders, and the mod directory is the one of
\* that installation.
C10_LaunchesRequestedVersion ==
  \A w \in WorkerIds :
    workers[w].cmd # NoCmd =>
      LET f == workers[w].cmd.version IN
      /\ FolderKind(f) = workers[w].loader
      /\ FolderGame(f) = workers[w].version
      /\ workers[w].loader # "Vanilla" => Contains(workers[w].resolved_dir, f)
      /\ workers[w].cmd.mods_directory =
           (IF workers[w].loader = "Vanilla" THEN BaseMods ELSE VersionMods(f))

====
